---- MODULE Spec2Model ----
(***************************************************************************)
(* The image upload/finalize protocol of the registry API                  *)
(* (PutImageJsonHandler, PutImageLayerHandler, PutImageChecksumHandler,    *)
(* the RequireCompletion barrier and the read endpoints) over a key->bytes *)
(* blob store.                                                             *)
(*                                                                         *)
(* Strings that the handlers build or parse (checksum header, cookie       *)
(* value, stored checksum) are sequences of tokens: a token is one digest  *)
(* or the cookie separator.  A digest is the record of what was hashed, so *)
(* two digests are equal exactly when their inputs are.                    *)
(***************************************************************************)
EXTENDS Integers, Sequences, FiniteSets, TLC

VARIABLES
    json,       \* imageID -> stored json body          (images/<id>/json)
    mark,       \* set of imageIDs whose mark blob exists (images/<id>/_inprogress)
    layer,      \* imageID -> stored layer stream        (images/<id>/layer)
    checksum,   \* imageID -> stored checksum string     (images/<id>/_checksum)
    ancestry,   \* imageID -> stored ancestry array      (images/<id>/ancestry)
    files,      \* imageID -> cached files listing       (images/<id>/_files)
    last,       \* the last completed request and its response
    hs,         \* the in-flight handlers of the interleaved specification
    repo,       \* basename -> bytes, the directory of one repository
    ts,         \* a TarSum object (seed, hashes, sha) and the tar stream it reads
    client      \* the uploading client: where it is in a retry, the cookie it holds

blobs == <<json, mark, layer, checksum, ancestry, files>>
vars == <<json, mark, layer, checksum, ancestry, files, last, hs, repo, ts,
          client>>

----------------------------------------------------------------------------
(* Bounds *)

\* ancestry arrays longer than this are not built (a repeated PutJson of an
\* image that is its own ancestor grows them without limit)
MaxAncestry == 3

\* the longest tar archive a TarSum object is fed
MaxEntries == 3

----------------------------------------------------------------------------
(* Values *)

Images == {"a", "b"}

\* what a decoded body holds under a key: an image id, nothing, or a value
\* that is not a string
Missing == "<missing>"
NonString == "<nonstring>"
Fields == Images \cup {Missing, NonString}

\* a request body: ok is whether json.Unmarshal accepts it
InvalidJson == [ok |-> FALSE, id |-> Missing, parent |-> Missing]
Bodies == {InvalidJson} \cup [ok : {TRUE}, id : Fields, parent : Fields]

\* the bodies tried with a PutJson of image i: the well-formed ones naming i,
\* and one of each way of being rejected
JsonBodies(i) ==
    [ok : {TRUE}, id : {i}, parent : Images \cup {Missing, NonString}]
    \cup [ok : {TRUE}, id : (Images \ {i}) \cup {Missing, NonString}, parent : {Missing}]
    \cup {InvalidJson}

\* layer streams: 1 is a tar archive of two entries (their per-entry digests
\* are 2 and 1, in archive order), 2 is not a tar archive
Streams == {1, 2}
TarEntries(s) == IF s = 1 THEN <<2, 1>> ELSE <<>>
TarParses(s) == s = 1

\* tokens
Sep == [alg |-> "|", seed |-> InvalidJson, data |-> <<>>]
Bogus == [alg |-> "bogus", seed |-> InvalidJson, data |-> <<>>]
EmptyStr == <<>>

NoCookie == [present |-> FALSE, value |-> <<>>]
Cookie(v) == [present |-> TRUE, value |-> v]

----------------------------------------------------------------------------
(* Storage: a key -> bytes store, one partial function per artifact *)

Exists(blob, k) == k \in DOMAIN blob
Put(blob, k, v) == [x \in DOMAIN blob \cup {k} |-> IF x = k THEN v ELSE blob[x]]
Remove(blob, k) == [x \in DOMAIN blob \ {k} |-> blob[x]]
Empty == [x \in {} |-> TRUE]

\* the storage operations that fail in one request (none in Spec)
NoFailure == {}

----------------------------------------------------------------------------
(* Digests *)

\* sha256 over the json bytes followed by the stream bytes
Sha256Sum(jsonContent, s) ==
    [alg |-> "sha256:", seed |-> jsonContent, data |-> <<s>>]

\* sort.Strings on the per-entry digests
RECURSIVE Insert(_, _)
Insert(x, sorted) ==
    IF sorted = <<>> THEN <<x>>
    ELSE IF x <= Head(sorted) THEN <<x>> \o sorted
    ELSE <<Head(sorted)>> \o Insert(x, Tail(sorted))

RECURSIVE SortStrings(_)
SortStrings(hashes) ==
    IF hashes = <<>> THEN <<>> ELSE Insert(Head(hashes), SortStrings(Tail(hashes)))

\* faulty variant: Compute hashes the entry digests in the order appended
TarSumAppended(seed, hashes) ==
    [alg |-> "tarsum+sha256", seed |-> seed, data |-> hashes]

\* TarSum.Compute: sha256 over the seed and then the sorted entry digests
TarSumCompute(seed, hashes) ==
    [alg |-> "tarsum+sha256", seed |-> seed, data |-> SortStrings(hashes)]

\* faulty variant: the tarsum is a key whatever tarInfo.Error is
CandidateChecksumsAlways(jsonContent, s) ==
    {<<Sha256Sum(jsonContent, s)>>, <<TarSumCompute(jsonContent, TarEntries(s))>>}

\* the keys of the checksums map of PutImageLayerHandler: the sha256 digest
\* and, when tarInfo.Error is nil, the tarsum
CandidateChecksums(jsonContent, s) ==
    {<<Sha256Sum(jsonContent, s)>>} \cup
    (IF TarParses(s) THEN {<<TarSumCompute(jsonContent, TarEntries(s))>>} ELSE {})

----------------------------------------------------------------------------
(* Cookie strings *)

\* the orders in which ranging over the checksums map can visit its keys
Orders(S) == {f \in [1..Cardinality(S) -> S] : \A x \in S : \E k \in DOMAIN f : f[k] = x}

\* cookieString += sum + COOKIE_SEPARATOR, for each sum in the order ord
RECURSIVE JoinWithSeparator(_, _)
JoinWithSeparator(ord, k) ==
    IF k > Len(ord) THEN <<>> ELSE ord[k] \o <<Sep>> \o JoinWithSeparator(ord, k + 1)

TrimSuffix(s) ==
    IF s # <<>> /\ s[Len(s)] = Sep THEN SubSeq(s, 1, Len(s) - 1) ELSE s

CookieString(ord) == TrimSuffix(JoinWithSeparator(ord, 1))

\* strings.Split(value, COOKIE_SEPARATOR): the pieces between separators
RECURSIVE Split(_)
Split(s) ==
    IF s = <<>> THEN << <<>> >>
    ELSE IF Head(s) = Sep THEN << <<>> >> \o Split(Tail(s))
    ELSE LET r == Split(Tail(s)) IN << <<Head(s)>> \o Head(r) >> \o Tail(r)

\* checksumMap of PutImageChecksumHandler: the set of pieces of the cookie
ChecksumMap(value) == {Split(value)[k] : k \in DOMAIN Split(value)}

----------------------------------------------------------------------------
(* Requests and responses *)

NoRequest ==
    [op |-> "none", img |-> "", status |-> 0, body |-> InvalidJson,
     hdr |-> EmptyStr, cookie |-> NoCookie, stream |-> <<>>, kind |-> "",
     setCookie |-> NoCookie, ran |-> FALSE, sent |-> "", spawn |-> FALSE,
     checksumHeader |-> NoCookie, tag |-> <<>>, data |-> Empty,
     ims |-> FALSE, storage |-> FALSE]

Stored ==
    /\ json = Empty
    /\ mark = {}
    /\ layer = Empty
    /\ checksum = Empty
    /\ ancestry = Empty
    /\ files = Empty
    /\ repo = Empty
    /\ last = NoRequest

\* no handler is in flight between two requests
NoHandlers == [h \in {} |-> TRUE]

\* no TarSum object exists outside the finalizer of a layer upload
NoTarSum == [seed |-> InvalidJson, hashes |-> <<>>, sha |-> <<>>, left |-> <<>>,
             sum |-> <<>>, archive |-> <<>>, read |-> <<>>]

\* a client that is not in a retry and holds no cookie
NoClient == [stage |-> "idle", img |-> "", cookie |-> NoCookie, began |-> {}]

\* the state after construction: an empty store
Init == Stored /\ hs = NoHandlers /\ ts = NoTarSum /\ client = NoClient

----------------------------------------------------------------------------
(* layers.StoreChecksum and layers.GenerateAncestry *)

\* StoreChecksum persists the header value verbatim
StoreChecksum(ck, imageID, sum, failed) ==
    IF failed THEN [err |-> TRUE, checksum |-> ck]
    ELSE [err |-> FALSE, checksum |-> Put(ck, imageID, sum)]

\* GenerateAncestry reads the parent's ancestry, prepends imageID and
\* persists the result; parentID is Missing when the body names no parent
GenerateAncestry(anc, imageID, parentID, F) ==
    IF parentID = Missing
    THEN IF "put_ancestry" \in F THEN [err |-> TRUE, ancestry |-> anc]
         ELSE [err |-> FALSE, ancestry |-> Put(anc, imageID, <<imageID>>)]
    ELSE IF ~Exists(anc, parentID) \/ "get_ancestry" \in F \/ "put_ancestry" \in F
         THEN [err |-> TRUE, ancestry |-> anc]
         ELSE [err |-> FALSE,
               ancestry |-> Put(anc, imageID, <<imageID>> \o anc[parentID])]

----------------------------------------------------------------------------
(* PUT /v1/images/{imageID}/json *)

\* parentID as the handler declares it: "" unless the body has a parent
ParentID(body) == body.parent

\* faulty variant: any string id is accepted
IDIsString(imageID, dataID) == dataID # NonString

\* data["id"] is a string and equals the imageID of the path
IDMatches(imageID, dataID) == dataID # NonString /\ imageID = dataID

\* faulty variant: the parent's json is not looked up
ParentUnchecked(js, parentID, F) == TRUE

\* the json blob of the declared parent exists
ParentExists(js, parentID, F) == Exists(js, parentID) /\ "exists_parent" \notin F

\* faulty variant: the conflict check is taken only when the mark exists
JsonConflictOnMark(js, mk, imageID, F) ==
    /\ Exists(js, imageID) /\ "exists_json" \notin F
    /\ imageID \in mk /\ "exists_mark" \notin F

\* the conflict check: json exists and mark does not
JsonConflict(js, mk, imageID, F) ==
    /\ Exists(js, imageID) /\ "exists_json" \notin F
    /\ ~(imageID \in mk /\ "exists_mark" \notin F)

\* faulty variant: a request without the header leaves the old checksum
HeaderChecksumKept(ck, imageID, hdr, F) ==
    IF hdr = EmptyStr THEN [err |-> FALSE, checksum |-> ck]
    ELSE StoreChecksum(ck, imageID, hdr, "store_checksum" \in F)

\* the checksum blob after the X-Docker-Checksum header has been handled
\* (an empty header removes the old checksum), and whether storing failed
HeaderChecksum(ck, imageID, hdr, F) ==
    IF hdr = EmptyStr
    THEN [err |-> FALSE,
          checksum |-> IF "remove_checksum" \in F THEN ck ELSE Remove(ck, imageID)]
    ELSE StoreChecksum(ck, imageID, hdr, "store_checksum" \in F)

\* faulty variant: the ancestry is generated without the declared parent
PutJsonWritesNoParent(imageID, body, ck, F) ==
    [status |-> IF F = NoFailure THEN 200 ELSE 500, checksum |-> ck,
     mark |-> mark \cup {imageID}, json |-> Put(json, imageID, body),
     ancestry |-> GenerateAncestry(ancestry, imageID, Missing, F).ancestry]

\* the writes of an accepted request: mark, then json, then ancestry
PutJsonWrites(imageID, body, ck, F) ==
    LET mk1 == mark \cup {imageID}
        js1 == Put(json, imageID, body)
        gen == GenerateAncestry(ancestry, imageID, ParentID(body), F)
    IN  IF "put_mark" \in F
        THEN [status |-> 500, checksum |-> ck, mark |-> mark, json |-> json,
              ancestry |-> ancestry]
        ELSE IF "put_json" \in F
        THEN [status |-> 500, checksum |-> ck, mark |-> mk1, json |-> json,
              ancestry |-> ancestry]
        ELSE IF gen.err
        THEN [status |-> 500, checksum |-> ck, mark |-> mk1, json |-> js1,
              ancestry |-> ancestry]
        ELSE [status |-> 200, checksum |-> ck, mark |-> mk1, json |-> js1,
              ancestry |-> gen.ancestry]

\* the response status and the stored blobs after the whole handler
PutJsonResult(imageID, body, hdr, F) ==
    LET same(st) == [status |-> st, checksum |-> checksum, mark |-> mark,
                     json |-> json, ancestry |-> ancestry]
        hc == HeaderChecksum(checksum, imageID, hdr, F)
        rejected(st) == [status |-> st, checksum |-> hc.checksum, mark |-> mark,
                         json |-> json, ancestry |-> ancestry]
    IN  IF ~body.ok THEN same(400)
        ELSE IF body.id = Missing THEN same(400)
        ELSE IF hc.err THEN rejected(400)
        ELSE IF ~IDMatches(imageID, body.id) THEN rejected(400)
        ELSE IF body.parent = NonString THEN rejected(400)
        ELSE IF body.parent # Missing /\ ~ParentExists(json, ParentID(body), F)
             THEN rejected(400)
        ELSE IF JsonConflict(json, mark, imageID, F) THEN rejected(409)
        ELSE PutJsonWrites(imageID, body, hc.checksum, F)

PutImageJsonHandler(imageID, body, hdr, F) ==
    LET r == PutJsonResult(imageID, body, hdr, F) IN
    /\ Exists(r.ancestry, imageID) => Len(r.ancestry[imageID]) <= MaxAncestry
    /\ checksum' = r.checksum
    /\ mark' = r.mark
    /\ json' = r.json
    /\ ancestry' = r.ancestry
    /\ last' = [NoRequest EXCEPT !.op = "PutJson", !.img = imageID,
                 !.status = r.status, !.body = body, !.hdr = hdr]
    /\ UNCHANGED <<layer, files, hs, repo, ts>>

----------------------------------------------------------------------------
(* PUT /v1/images/{imageID}/layer *)

\* faulty variant: the conflict is reported when the mark exists
LayerConflictTestOnMark(layerExists, markExists) == layerExists /\ markExists

\* layerExists && !markExists
LayerConflictTest(layerExists, markExists) == layerExists /\ ~markExists

LayerConflict(ly, mk, imageID, F) ==
    LayerConflictTest(Exists(ly, imageID) /\ "exists_layer" \notin F,
                      imageID \in mk /\ "exists_mark" \notin F)

\* Storage.Remove(markPath) and whether it reported an error; strict is
\* whether the backend reports the removal of a missing key as an error
RemoveMark(mk, imageID, strict, F) ==
    IF "remove_mark" \in F \/ (imageID \notin mk /\ strict)
    THEN [err |-> TRUE, mark |-> mk]
    ELSE [err |-> FALSE, mark |-> mk \ {imageID}]

\* the files listing after the finalizer: written when the tar parsed
FilesAfterLoad(imageID, s, F) ==
    IF TarParses(s) /\ "put_files" \notin F
    THEN Put(files, imageID, TarEntries(s))
    ELSE files

\* the response and the stored blobs after the whole handler; ord is the
\* order in which the checksums map is ranged over for the cookie
PutLayerResult(imageID, s, ord, strict, F) ==
    LET same(st) == [status |-> st, layer |-> layer, files |-> files, mark |-> mark,
                     setCookie |-> NoCookie]
        stored(st, mk, ck) ==
            [status |-> st, layer |-> Put(layer, imageID, s),
             files |-> FilesAfterLoad(imageID, s, F), mark |-> mk, setCookie |-> ck]
        checksums == CandidateChecksums(json[imageID], s)
        rm == RemoveMark(mark, imageID, strict, F)
    IN  IF ~Exists(json, imageID) \/ "get_json" \in F THEN same(404)
        ELSE IF LayerConflict(layer, mark, imageID, F) THEN same(409)
        ELSE IF "put_layer" \in F THEN same(500)
        ELSE IF ~Exists(checksum, imageID) \/ "get_checksum" \in F
             THEN stored(200, mark, Cookie(CookieString(ord)))
        ELSE IF checksum[imageID] \notin checksums THEN stored(400, mark, NoCookie)
        ELSE IF rm.err THEN stored(500, mark, NoCookie)
        ELSE stored(200, rm.mark, NoCookie)

PutImageLayerHandler(imageID, s, F) ==
    \E ord \in (IF Exists(json, imageID)
                 THEN Orders(CandidateChecksums(json[imageID], s)) ELSE {<<>>}) :
    \E strict \in BOOLEAN :
        LET r == PutLayerResult(imageID, s, ord, strict, F) IN
        /\ layer' = r.layer
        /\ files' = r.files
        /\ mark' = r.mark
        /\ last' = [NoRequest EXCEPT !.op = "PutLayer", !.img = imageID,
                     !.status = r.status, !.stream = <<s>>,
                     !.setCookie = r.setCookie]
        /\ UNCHANGED <<json, checksum, ancestry, hs, repo, ts>>

----------------------------------------------------------------------------
(* PUT /v1/images/{imageID}/checksum *)

\* faulty variant: the mark is not looked up
PreconditionsWithoutMark(imageID, hdr, cookie, F) ==
    IF hdr = EmptyStr THEN 400
    ELSE IF ~cookie.present THEN 400
    ELSE IF ~(Exists(json, imageID) /\ "exists_json" \notin F) THEN 404
    ELSE 0

\* the status the handler refuses the request with before it stores
\* anything, 0 when it does not refuse it
Preconditions(imageID, hdr, cookie, F) ==
    IF hdr = EmptyStr THEN 400
    ELSE IF ~cookie.present THEN 400
    ELSE IF ~(Exists(json, imageID) /\ "exists_json" \notin F) THEN 404
    ELSE IF ~(imageID \in mark /\ "exists_mark" \notin F) THEN 409
    ELSE 0

\* the response status and the stored blobs after the whole handler
PutChecksumResult(imageID, hdr, cookie, F) ==
    LET same(st) == [status |-> st, checksum |-> checksum, mark |-> mark]
        st1 == StoreChecksum(checksum, imageID, hdr, "store_checksum" \in F)
        rm == RemoveMark(mark, imageID, FALSE, F)
        refused == Preconditions(imageID, hdr, cookie, F)
    IN  IF refused # 0 THEN same(refused)
        ELSE IF hdr \notin ChecksumMap(cookie.value)
             THEN [status |-> 400, checksum |-> st1.checksum, mark |-> mark]
        ELSE [status |-> 200, checksum |-> st1.checksum, mark |-> rm.mark]

PutImageChecksumHandler(imageID, hdr, cookie, F) ==
    LET r == PutChecksumResult(imageID, hdr, cookie, F) IN
    /\ checksum' = r.checksum
    /\ mark' = r.mark
    /\ last' = [NoRequest EXCEPT !.op = "PutChecksum", !.img = imageID,
                 !.status = r.status, !.hdr = hdr, !.cookie = cookie]
    /\ UNCHANGED <<json, layer, ancestry, files, hs, repo, ts>>

----------------------------------------------------------------------------
(* The read endpoints behind RequireCompletion *)

Kinds == {"layer", "json", "ancestry", "files", "diff"}

\* faulty variant: the barrier tests the layer blob instead of the mark blob
InProgressByLayer(mk, imageID, F) == ~Exists(layer, imageID)

\* the mark test of RequireCompletion
InProgress(mk, imageID, F) == imageID \in mk /\ "exists_mark" \notin F

\* what the wrapped handler answers: status, the artifact it sends, whether
\* it spawns GenDiff, and the X-Docker-Checksum header it sets; cached is
\* whether the diff cache holds a diff for the image
WrappedHandler(imageID, kind, cached, F) ==
    LET found(blob, fail) == Exists(blob, imageID) /\ fail \notin F
        reply(st, what) == [status |-> st, sent |-> what, spawn |-> FALSE,
                            checksumHeader |-> NoCookie]
    IN  IF kind = "layer"
        THEN IF found(layer, "get_layer") THEN reply(200, "layer") ELSE reply(404, "")
        ELSE IF kind = "json"
        THEN IF ~found(json, "get_json") THEN reply(404, "")
             ELSE [reply(200, "json") EXCEPT !.checksumHeader =
                       IF Exists(checksum, imageID) /\ "get_checksum" \in F
                       THEN Cookie(EmptyStr) ELSE NoCookie]
        ELSE IF kind = "ancestry"
        THEN IF found(ancestry, "get_ancestry") THEN reply(200, "ancestry")
             ELSE reply(404, "")
        ELSE IF kind = "files"
        THEN IF found(files, "get_files") THEN reply(200, "files") ELSE reply(404, "")
        ELSE IF "get_diff" \in F THEN reply(500, "")
        ELSE IF cached THEN reply(200, "diff")
        ELSE [reply(200, "") EXCEPT !.spawn = TRUE]

\* CheckIfModifiedSince(handler); ims is whether the request carries an
\* If-Modified-Since header, storage whether a storage operation was made
CheckIfModifiedSince(imageID, kind, cached, ims, F) ==
    IF ims
    THEN [status |-> 304, sent |-> "", spawn |-> FALSE, checksumHeader |-> NoCookie,
          ran |-> FALSE, storage |-> FALSE]
    ELSE LET r == WrappedHandler(imageID, kind, cached, F) IN
         [status |-> r.status, sent |-> r.sent, spawn |-> r.spawn,
          checksumHeader |-> r.checksumHeader, ran |-> TRUE, storage |-> TRUE]

\* RequireCompletion(handler), where handler is CheckIfModifiedSince(...) of
\* the read handler
RequireCompletion(imageID, kind, cached, ims, F) ==
    IF InProgress(mark, imageID, F)
    THEN [status |-> 400, sent |-> "", spawn |-> FALSE, checksumHeader |-> NoCookie,
          ran |-> FALSE, storage |-> TRUE]
    ELSE [CheckIfModifiedSince(imageID, kind, cached, ims, F)
             EXCEPT !.storage = TRUE]

\* a GET of a read endpoint, routed through RequireCompletion and then
\* CheckIfModifiedSince to the handler
GetImage(imageID, kind, cached, ims, F) ==
    LET r == RequireCompletion(imageID, kind, cached, ims, F) IN
    /\ last' = [NoRequest EXCEPT !.op = "Get", !.img = imageID, !.kind = kind,
                 !.status = r.status, !.sent = r.sent, !.ran = r.ran,
                 !.spawn = r.spawn, !.checksumHeader = r.checksumHeader,
                 !.ims = ims, !.storage = r.storage]
    /\ UNCHANGED <<json, mark, layer, checksum, ancestry, files, hs, repo, ts>>

----------------------------------------------------------------------------
(* The requests a client sends *)

\* the images the upload protocol is driven on
UploadImages == {"a"}

\* X-Docker-Checksum values tried with a PutJson: none, a wrong one, and the
\* tarsum that the body with stream 1 will have
JsonHeaders(body) ==
    {EmptyStr, <<Bogus>>} \cup
    (IF body.ok /\ body.id \in Images /\ body.parent # NonString
     THEN {<<TarSumCompute(body, TarEntries(1))>>} ELSE {})

\* the cookies PutImageLayerHandler can have set for the stored json and layer
LayerCookies ==
    UNION {{Cookie(CookieString(ord)) :
                ord \in Orders(CandidateChecksums(json[i], layer[i]))} :
           i \in DOMAIN json \cap DOMAIN layer}

\* cookies tried with a PutChecksum: none, an empty one, a made-up one and
\* those of PutImageLayerHandler
Cookies == {NoCookie, Cookie(EmptyStr), Cookie(<<Bogus>>)} \cup LayerCookies

\* X-Docker-Checksum values tried with a PutChecksum
ChecksumHeaders ==
    {EmptyStr, <<Bogus>>} \cup UNION {ChecksumMap(c.value) : c \in LayerCookies}

Next ==
    /\ \/ \E i \in UploadImages : \E body \in JsonBodies(i) :
             \E hdr \in JsonHeaders(body) : PutImageJsonHandler(i, body, hdr, NoFailure)
       \/ \E i \in UploadImages, s \in Streams : PutImageLayerHandler(i, s, NoFailure)
       \/ \E i \in UploadImages, hdr \in ChecksumHeaders, cookie \in Cookies :
             PutImageChecksumHandler(i, hdr, cookie, NoFailure)
       \/ \E i \in UploadImages, kind \in Kinds, cached \in BOOLEAN, ims \in BOOLEAN :
             GetImage(i, kind, cached, ims, NoFailure)
    /\ UNCHANGED client

Spec == Init /\ [][Next]_vars

\* The same requests when one storage operation of a request may fail: F
\* names the operation of the handler that fails
JsonFailures ==
    {"remove_checksum", "store_checksum", "exists_parent", "exists_json",
     "exists_mark", "put_mark", "put_json", "get_ancestry", "put_ancestry"}
LayerFailures ==
    {"get_json", "exists_layer", "exists_mark", "put_layer", "put_files",
     "get_checksum", "remove_mark"}
ChecksumFailures == {"exists_json", "exists_mark", "store_checksum", "remove_mark"}
GetFailures == {"exists_mark", "get_json", "get_layer", "get_checksum"}

OneOf(labels) == {NoFailure} \cup {{l} : l \in labels}

NextFail ==
    /\ \/ \E i \in UploadImages, F \in OneOf(JsonFailures) :
             \E hdr \in {EmptyStr, <<Bogus>>} :
                 PutImageJsonHandler(i, [ok |-> TRUE, id |-> i, parent |-> Missing], hdr, F)
       \/ \E i \in UploadImages, F \in OneOf(LayerFailures) :
             PutImageLayerHandler(i, 1, F)
       \/ \E i \in UploadImages, hdr \in ChecksumHeaders \ {EmptyStr},
             cookie \in LayerCookies \cup {Cookie(<<Bogus>>)},
             F \in OneOf(ChecksumFailures) :
             PutImageChecksumHandler(i, hdr, cookie, F)
       \/ \E i \in UploadImages, kind \in {"json", "layer"}, F \in OneOf(GetFailures) :
             GetImage(i, kind, FALSE, FALSE, F)
    /\ UNCHANGED client

SpecFail == Init /\ [][NextFail]_vars

\* PutJson requests on every image, for the properties about parents and ancestry
NextJson ==
    /\ \/ \E i \in Images : \E body \in JsonBodies(i) :
             PutImageJsonHandler(i, body, EmptyStr, NoFailure)
       \/ \E i \in Images, kind \in {"json", "ancestry"} :
             GetImage(i, kind, FALSE, FALSE, NoFailure)
    /\ UNCHANGED client

SpecJson == Init /\ [][NextJson]_vars

----------------------------------------------------------------------------
(* A client that retries an upload: PutJson without X-Docker-Checksum, then *)
(* PutLayer, then PutChecksum with a digest of the cookie of that PutLayer, *)
(* with no other request in between and no storage failure.                 *)

\* the bodies a retry of image i can send: no parent, or a parent whose json
\* and ancestry are stored
RetryBodies(i) ==
    {body \in [ok : {TRUE}, id : {i}, parent : Images \cup {Missing}] :
        body.parent # Missing =>
            (Exists(json, body.parent) /\ Exists(ancestry, body.parent))}

\* the blobs stored for image i
Present(i) ==
    {b \in {"json", "layer", "checksum", "ancestry"} :
        \/ b = "json" /\ Exists(json, i)
        \/ b = "layer" /\ Exists(layer, i)
        \/ b = "checksum" /\ Exists(checksum, i)
        \/ b = "ancestry" /\ Exists(ancestry, i)}

RetryJson ==
    \E i \in UploadImages : \E body \in RetryBodies(i) :
        /\ client.stage = "idle" /\ i \in mark
        /\ PutImageJsonHandler(i, body, EmptyStr, NoFailure)
        /\ client' = [client EXCEPT !.stage = "json", !.img = i,
                                    !.began = Present(i)]

RetryLayer ==
    \E s \in Streams :
        /\ client.stage = "json"
        /\ PutImageLayerHandler(client.img, s, NoFailure)
        /\ client' = [client EXCEPT !.stage = "layer", !.cookie = last'.setCookie]

RetryChecksum ==
    \E hdr \in ChecksumMap(client.cookie.value) :
        /\ client.stage = "layer"
        /\ PutImageChecksumHandler(client.img, hdr, client.cookie, NoFailure)
        /\ client' = [client EXCEPT !.stage = "idle"]

\* any requests, some with a failing storage operation, and then a retry
NextRetry ==
    \/ client.stage = "idle" /\ NextFail
    \/ RetryJson
    \/ RetryLayer
    \/ RetryChecksum

SpecRetry == Init /\ [][NextRetry]_vars

----------------------------------------------------------------------------
(* A client that sends with PutChecksum only a cookie that a PutLayer set:  *)
(* after each PutLayer that sets a cookie it keeps that cookie or the one   *)
(* it already holds.                                                        *)

ClientPutJson ==
    \E i \in UploadImages : \E body \in RetryBodies(i) :
        \E hdr \in JsonHeaders(body) :
            /\ PutImageJsonHandler(i, body, hdr, NoFailure)
            /\ UNCHANGED client

ClientPutLayer ==
    \E i \in UploadImages, s \in Streams, keep \in BOOLEAN :
        /\ PutImageLayerHandler(i, s, NoFailure)
        /\ client' = IF last'.setCookie.present /\ ~(keep /\ client.cookie.present)
                     THEN [client EXCEPT !.cookie = last'.setCookie]
                     ELSE client

ClientPutChecksum ==
    \E i \in UploadImages :
        \E hdr \in ChecksumMap(client.cookie.value) \cup {<<Bogus>>} :
            /\ client.cookie.present
            /\ PutImageChecksumHandler(i, hdr, client.cookie, NoFailure)
            /\ UNCHANGED client

NextClient == ClientPutJson \/ ClientPutLayer \/ ClientPutChecksum

SpecClient == Init /\ [][NextClient]_vars

----------------------------------------------------------------------------
(* Tags of one repository.  A basename in the repository's directory is a  *)
(* sequence of tokens: the tag prefix followed by the tag name, or the name *)
(* of the repository metadata blob.                                         *)

TAG_PREFIX == "tag_"
TagNames == {<<"latest">>, <<"v1">>}

\* the basenames of storage.RepoTagPath(ns, repo, tag) and storage.RepoJsonPath
RepoTagPath(tag) == <<TAG_PREFIX>> \o tag
RepoJsonPath == <<"json">>

\* the bytes PutRepoTagHandler writes as repository metadata
RepoJson == "repo_json"

\* strings.HasPrefix and strings.TrimPrefix
HasPrefix(base, prefix) == base # <<>> /\ Head(base) = prefix
TrimPrefix(base, prefix) == IF HasPrefix(base, prefix) THEN Tail(base) ELSE base

\* faulty variant: every listed name is taken for a tag
IsTagAny(base) == TRUE

\* the names of the listing that GetRepoTagsHandler does not skip
IsTag(base) == HasPrefix(base, TAG_PREFIX)

\* GET tags; strict is whether the backend reports a missing directory as
\* an error
GetRepoTagsResult(strict) ==
    LET names == {base \in DOMAIN repo : IsTag(base)}
        tagNames == {TrimPrefix(base, TAG_PREFIX) : base \in names}
    IN  IF repo = Empty /\ strict THEN [status |-> 404, data |-> Empty]
        ELSE [status |-> 200,
              data |-> [t \in tagNames |->
                          repo[CHOOSE base \in names :
                                   TrimPrefix(base, TAG_PREFIX) = t]]]

GetRepoTagsHandler ==
    \E strict \in BOOLEAN :
        LET r == GetRepoTagsResult(strict) IN
        /\ last' = [NoRequest EXCEPT !.op = "GetTags", !.status = r.status,
                     !.data = r.data]
        /\ UNCHANGED <<blobs, hs, repo, ts>>

\* DELETE tags: Storage.RemoveAll on the directory
DeleteRepoTagsHandler ==
    \E strict \in BOOLEAN :
        /\ IF repo = Empty /\ strict
           THEN /\ repo' = repo
                /\ last' = [NoRequest EXCEPT !.op = "DeleteTags", !.status = 404]
           ELSE /\ repo' = Empty
                /\ last' = [NoRequest EXCEPT !.op = "DeleteTags", !.status = 200]
        /\ UNCHANGED <<blobs, hs, ts>>

GetRepoTagHandler(tag) ==
    /\ last' = IF Exists(repo, RepoTagPath(tag))
               THEN [NoRequest EXCEPT !.op = "GetTag", !.tag = tag, !.status = 200,
                        !.img = repo[RepoTagPath(tag)]]
               ELSE [NoRequest EXCEPT !.op = "GetTag", !.tag = tag, !.status = 404]
    /\ UNCHANGED <<blobs, hs, repo, ts>>

\* faulty variant: the image named by the body is not looked up
TagTargetUnchecked(js, data) == TRUE

\* the json blob of the image named by the body exists
TagTargetExists(js, data) == Exists(js, data)

\* PUT tag; data is the request body, "" when it is empty
PutRepoTagResult(tag, data) ==
    LET tagged == Put(repo, RepoTagPath(tag), data) IN
    IF data = "" THEN [status |-> 400, repo |-> repo]
    ELSE IF ~TagTargetExists(json, data) THEN [status |-> 404, repo |-> repo]
    ELSE IF tag = <<"latest">>
         THEN [status |-> 200, repo |-> Put(tagged, RepoJsonPath, RepoJson)]
    ELSE [status |-> 200, repo |-> tagged]

PutRepoTagHandler(tag, data) ==
    LET r == PutRepoTagResult(tag, data) IN
    /\ repo' = r.repo
    /\ last' = [NoRequest EXCEPT !.op = "PutTag", !.tag = tag, !.img = data,
                 !.status = r.status]
    /\ UNCHANGED <<blobs, hs, ts>>

\* DELETE tag; strict is whether the backend reports the removal of a
\* missing key as an error
DeleteRepoTagHandler(tag) ==
    \E strict \in BOOLEAN :
        /\ IF ~Exists(repo, RepoTagPath(tag)) /\ strict
           THEN /\ repo' = repo
                /\ last' = [NoRequest EXCEPT !.op = "DeleteTag", !.tag = tag,
                                !.status = 404]
           ELSE /\ repo' = Remove(repo, RepoTagPath(tag))
                /\ last' = [NoRequest EXCEPT !.op = "DeleteTag", !.tag = tag,
                                !.status = 200]
        /\ UNCHANGED <<blobs, hs, ts>>

\* tag requests, with the PutJson requests that make images known
NextTags ==
    /\ \/ \E i \in Images :
             PutImageJsonHandler(i, [ok |-> TRUE, id |-> i, parent |-> Missing],
                                 EmptyStr, NoFailure)
       \/ \E tag \in TagNames, data \in Images \cup {""} : PutRepoTagHandler(tag, data)
       \/ \E tag \in TagNames : GetRepoTagHandler(tag)
       \/ \E tag \in TagNames : DeleteRepoTagHandler(tag)
       \/ GetRepoTagsHandler
       \/ DeleteRepoTagsHandler
    /\ UNCHANGED client

SpecTags == Init /\ [][NextTags]_vars

----------------------------------------------------------------------------
(* TarSum: Append once per tar entry, then Compute *)

\* a tar entry: its header (here a name) and its body, 0 for an entry of
\* size 0
TarHeaders == [name : {1, 2}, body : {0, 1}]

\* archives of up to n entries
RECURSIVE Archives(_)
Archives(n) ==
    IF n = 0 THEN {<<>>}
    ELSE Archives(n - 1) \cup
         {Append(a, e) : a \in {b \in Archives(n - 1) : Len(b) = n - 1},
                         e \in TarHeaders}

\* hex.EncodeToString(t.sha.Sum(nil)) for the bytes written to t.sha since
\* its Reset: a number for each header and body written, different for
\* different writes and not in the order of the names
Hex(sha) ==
    LET code == sha[1].name + (IF Len(sha) > 1 THEN 2 * sha[2] ELSE 0)
    IN  (code * 3) % 5

\* NewTarSum(seed)
NewTarSum(seed) == [seed |-> seed, hashes |-> <<>>, sha |-> <<>>]

\* t.Append(header, reader): the object afterwards
TarSumAppend(t, header) ==
    LET sha == IF header.body > 0 THEN <<header, header.body>> ELSE <<header>>
    IN  [t EXCEPT !.sha = sha, !.hashes = Append(t.hashes, Hex(sha))]

\* every entry of the archive appended in archive order
RECURSIVE Loaded(_, _)
Loaded(t, archive) ==
    IF archive = <<>> THEN t
    ELSE Loaded(TarSumAppend(t, Head(archive)), Tail(archive))

\* the sequence without its k-th element
Without(seq, k) == SubSeq(seq, 1, k - 1) \o SubSeq(seq, k + 1, Len(seq))

\* the next entry read from a tar stream that holds the entries of the
\* archive in some order
AppendEntry ==
    \E k \in DOMAIN ts.left :
        LET t == TarSumAppend([seed |-> ts.seed, hashes |-> ts.hashes,
                               sha |-> ts.sha], ts.left[k])
        IN  /\ ts.sum = <<>>
            /\ ts' = [ts EXCEPT !.hashes = t.hashes, !.sha = t.sha,
                                !.left = Without(ts.left, k),
                                !.read = Append(ts.read, ts.left[k])]
            /\ UNCHANGED <<blobs, last, hs, repo>>

\* t.Compute() after the last entry: t.hashes is sorted in place
Compute ==
    /\ ts.left = <<>> /\ ts.sum = <<>>
    /\ ts' = [ts EXCEPT !.hashes = SortStrings(ts.hashes),
                        !.sha = <<ts.seed>> \o SortStrings(ts.hashes),
                        !.sum = <<TarSumCompute(ts.seed, ts.hashes)>>]
    /\ UNCHANGED <<blobs, last, hs, repo>>

NextTarSum == (AppendEntry \/ Compute) /\ UNCHANGED client

\* a fresh TarSum object for some seed and some archive to read
InitTarSum ==
    /\ Stored /\ hs = NoHandlers /\ client = NoClient
    /\ \E jsonContent \in [ok : {TRUE}, id : {"a"}, parent : Images] :
       \E archive \in Archives(MaxEntries) :
           ts = [NoTarSum EXCEPT !.seed = jsonContent, !.left = archive,
                                 !.archive = archive]

SpecTarSum == InitTarSum /\ [][NextTarSum]_vars

----------------------------------------------------------------------------
(* Parallel handlers: every storage operation of a handler is one step *)

Handlers == {"h1", "h2"}

Idle ==
    [op |-> "idle", pc |-> "", img |-> "", body |-> InvalidJson, hdr |-> EmptyStr,
     cookie |-> NoCookie, stream |-> <<>>, jsonContent |-> InvalidJson,
     layerExists |-> FALSE, parentAncestry |-> <<>>]

\* the handler in slot h returns with this status
Respond(h, status) ==
    /\ hs' = [hs EXCEPT ![h] = Idle]
    /\ last' = [NoRequest EXCEPT !.op = hs[h].op, !.img = hs[h].img,
                 !.status = status]

Goto(h, pc) == hs' = [hs EXCEPT ![h].pc = pc] /\ last' = last

\* a request arrives: the handler runs up to its first storage operation
StartPutJson(h, imageID, body, hdr) ==
    /\ hs[h].op = "idle"
    /\ IF ~body.ok \/ body.id = Missing
       THEN /\ last' = [NoRequest EXCEPT !.op = "PutJson", !.img = imageID,
                        !.status = 400]
            /\ hs' = hs
       ELSE /\ hs' = [hs EXCEPT ![h] = [Idle EXCEPT !.op = "PutJson",
                          !.pc = "checksum", !.img = imageID, !.body = body,
                          !.hdr = hdr]]
            /\ last' = last
    /\ UNCHANGED <<blobs, repo, ts>>

StartPutLayer(h, imageID, s) ==
    /\ hs[h].op = "idle"
    /\ hs' = [hs EXCEPT ![h] = [Idle EXCEPT !.op = "PutLayer", !.pc = "get_json",
                  !.img = imageID, !.stream = <<s>>]]
    /\ UNCHANGED <<blobs, last, repo, ts>>

StartPutChecksum(h, imageID, hdr, cookie) ==
    /\ hs[h].op = "idle"
    /\ IF hdr = EmptyStr \/ ~cookie.present
       THEN /\ last' = [NoRequest EXCEPT !.op = "PutChecksum", !.img = imageID,
                        !.status = 400]
            /\ hs' = hs
       ELSE /\ hs' = [hs EXCEPT ![h] = [Idle EXCEPT !.op = "PutChecksum",
                          !.pc = "exists_json", !.img = imageID, !.hdr = hdr,
                          !.cookie = cookie]]
            /\ last' = last
    /\ UNCHANGED <<blobs, repo, ts>>

\* one storage operation of PutImageJsonHandler and the code up to the next
JsonStep(h) ==
    LET r == hs[h]
        i == r.img
        parent == ParentID(r.body)
    IN
    /\ r.op = "PutJson"
    /\ \/ /\ r.pc = "checksum"
          /\ checksum' = HeaderChecksum(checksum, i, r.hdr, NoFailure).checksum
          /\ IF r.body.id # i \/ r.body.parent = NonString THEN Respond(h, 400)
             ELSE IF r.body.parent # Missing THEN Goto(h, "exists_parent")
             ELSE Goto(h, "exists_json")
          /\ UNCHANGED <<json, mark, layer, ancestry, files>>
       \/ /\ r.pc = "exists_parent"
          /\ IF Exists(json, parent) THEN Goto(h, "exists_json") ELSE Respond(h, 400)
          /\ UNCHANGED blobs
       \/ /\ r.pc = "exists_json"
          /\ IF Exists(json, i) THEN Goto(h, "exists_mark") ELSE Goto(h, "put_mark")
          /\ UNCHANGED blobs
       \/ /\ r.pc = "exists_mark"
          /\ IF i \in mark THEN Goto(h, "put_mark") ELSE Respond(h, 409)
          /\ UNCHANGED blobs
       \/ /\ r.pc = "put_mark"
          /\ mark' = mark \cup {i}
          /\ Goto(h, "put_json")
          /\ UNCHANGED <<json, layer, checksum, ancestry, files>>
       \/ /\ r.pc = "put_json"
          /\ json' = Put(json, i, r.body)
          /\ IF parent = Missing THEN Goto(h, "put_ancestry")
             ELSE Goto(h, "get_ancestry")
          /\ UNCHANGED <<mark, layer, checksum, ancestry, files>>
       \/ /\ r.pc = "get_ancestry"
          /\ IF Exists(ancestry, parent)
             THEN /\ Len(ancestry[parent]) < MaxAncestry
                  /\ hs' = [hs EXCEPT ![h].pc = "put_ancestry",
                                      ![h].parentAncestry = ancestry[parent]]
                  /\ last' = last
             ELSE Respond(h, 500)
          /\ UNCHANGED blobs
       \/ /\ r.pc = "put_ancestry"
          /\ ancestry' = Put(ancestry, i, <<i>> \o r.parentAncestry)
          /\ Respond(h, 200)
          /\ UNCHANGED <<json, mark, layer, checksum, files>>
    /\ UNCHANGED <<repo, ts>>

\* one storage operation of PutImageLayerHandler and the code up to the next
LayerStep(h) ==
    LET r == hs[h]
        i == r.img
        s == r.stream[1]
    IN
    /\ r.op = "PutLayer"
    /\ \/ /\ r.pc = "get_json"
          /\ IF Exists(json, i)
             THEN /\ hs' = [hs EXCEPT ![h].pc = "exists_layer",
                                      ![h].jsonContent = json[i]]
                  /\ last' = last
             ELSE Respond(h, 404)
          /\ UNCHANGED blobs
       \/ /\ r.pc = "exists_layer"
          /\ hs' = [hs EXCEPT ![h].pc = "exists_mark",
                              ![h].layerExists = Exists(layer, i)]
          /\ last' = last
          /\ UNCHANGED blobs
       \/ /\ r.pc = "exists_mark"
          /\ IF LayerConflictTest(r.layerExists, i \in mark) THEN Respond(h, 409)
             ELSE Goto(h, "put_layer")
          /\ UNCHANGED blobs
       \/ /\ r.pc = "put_layer"
          /\ layer' = Put(layer, i, s)
          /\ IF TarParses(s) THEN Goto(h, "put_files") ELSE Goto(h, "get_checksum")
          /\ UNCHANGED <<json, mark, checksum, ancestry, files>>
       \/ /\ r.pc = "put_files"
          /\ files' = Put(files, i, TarEntries(s))
          /\ Goto(h, "get_checksum")
          /\ UNCHANGED <<json, mark, layer, checksum, ancestry>>
       \/ /\ r.pc = "get_checksum"
          /\ IF ~Exists(checksum, i) THEN Respond(h, 200)
             ELSE IF checksum[i] \notin CandidateChecksums(r.jsonContent, s)
             THEN Respond(h, 400)
             ELSE Goto(h, "remove_mark")
          /\ UNCHANGED blobs
       \/ /\ r.pc = "remove_mark"
          /\ \E strict \in BOOLEAN :
                LET rm == RemoveMark(mark, i, strict, NoFailure) IN
                /\ mark' = rm.mark
                /\ Respond(h, IF rm.err THEN 500 ELSE 200)
          /\ UNCHANGED <<json, layer, checksum, ancestry, files>>
    /\ UNCHANGED <<repo, ts>>

\* one storage operation of PutImageChecksumHandler and the code up to the next
ChecksumStep(h) ==
    LET r == hs[h]
        i == r.img
    IN
    /\ r.op = "PutChecksum"
    /\ \/ /\ r.pc = "exists_json"
          /\ IF Exists(json, i) THEN Goto(h, "exists_mark") ELSE Respond(h, 404)
          /\ UNCHANGED blobs
       \/ /\ r.pc = "exists_mark"
          /\ IF i \in mark THEN Goto(h, "store_checksum") ELSE Respond(h, 409)
          /\ UNCHANGED blobs
       \/ /\ r.pc = "store_checksum"
          /\ checksum' = StoreChecksum(checksum, i, r.hdr, FALSE).checksum
          /\ IF r.hdr \in ChecksumMap(r.cookie.value) THEN Goto(h, "remove_mark")
             ELSE Respond(h, 400)
          /\ UNCHANGED <<json, mark, layer, ancestry, files>>
       \/ /\ r.pc = "remove_mark"
          /\ mark' = RemoveMark(mark, i, FALSE, NoFailure).mark
          /\ Respond(h, 200)
          /\ UNCHANGED <<json, layer, checksum, ancestry, files>>
    /\ UNCHANGED <<repo, ts>>

NextPar ==
    /\ \/ \E h \in Handlers, i \in UploadImages, parent \in {Missing, "a"} :
             StartPutJson(h, i, [ok |-> TRUE, id |-> i, parent |-> parent], EmptyStr)
       \/ \E h \in Handlers, i \in UploadImages, s \in Streams : StartPutLayer(h, i, s)
       \/ \E h \in Handlers, i \in UploadImages :
             StartPutChecksum(h, i, <<Bogus>>, Cookie(<<Bogus>>))
       \/ \E h \in Handlers : JsonStep(h)
       \/ \E h \in Handlers : LayerStep(h)
       \/ \E h \in Handlers : ChecksumStep(h)
    /\ UNCHANGED client

InitPar ==
    Stored /\ hs = [h \in Handlers |-> Idle] /\ ts = NoTarSum /\ client = NoClient

SpecPar == InitPar /\ [][NextPar]_vars

\* PutImageJsonHandler when a write may fail and the process may stop
\* between two storage operations

Writes == {"put_mark", "put_json", "put_ancestry"}

\* faulty variant: the error of a write is not looked at
NeverAborts(pc) == FALSE

\* whether the handler answers 500 and returns when the write at pc fails
Aborts(pc) == pc \in Writes

\* the write the handler in slot h is about to make fails
FailWrite(h) ==
    LET r == hs[h] IN
    /\ r.op = "PutJson" /\ r.pc \in Writes
    /\ IF Aborts(r.pc) THEN Respond(h, 500)
       ELSE IF r.pc = "put_mark" THEN Goto(h, "put_json")
       ELSE IF r.pc = "put_json"
            THEN IF ParentID(r.body) = Missing THEN Goto(h, "put_ancestry")
                 ELSE Goto(h, "get_ancestry")
       ELSE Respond(h, 200)
    /\ UNCHANGED <<blobs, repo, ts>>

\* the process stops: the handler in slot h makes no further step and
\* sends no response
Crash(h) ==
    /\ hs[h].op # "idle"
    /\ hs' = [hs EXCEPT ![h] = Idle]
    /\ UNCHANGED <<blobs, last, repo, ts>>

NextCrash ==
    /\ \/ \E h \in Handlers, i \in Images, parent \in {Missing, "a"} :
             StartPutJson(h, i, [ok |-> TRUE, id |-> i, parent |-> parent], EmptyStr)
       \/ \E h \in Handlers : JsonStep(h)
       \/ \E h \in Handlers : FailWrite(h)
       \/ \E h \in Handlers : Crash(h)
       \/ \E i \in Images, kind \in {"json", "ancestry"} :
             /\ GetImage(i, kind, FALSE, FALSE, NoFailure)
             /\ \A h \in Handlers : hs[h].op = "idle"
    /\ UNCHANGED client

SpecCrash == InitPar /\ [][NextCrash]_vars

----------------------------------------------------------------------------
(* Properties *)

Complete(i) == Exists(json, i) /\ Exists(layer, i) /\ i \notin mark

\* C1: a read endpoint behind RequireCompletion, handled while the image's
\* mark exists, answers 400 and the wrapped handler does not run: nothing is
\* sent and no diff generation is spawned.
C1_Barrier ==
    (last.op = "Get" /\ last.img \in mark) =>
        (last.status = 400 /\ ~last.ran /\ last.sent = "" /\ ~last.spawn)

C1_Witness ==
    /\ last.op = "Get" /\ last.kind = "layer" /\ last.status = 400
    /\ last.img \in mark /\ Exists(layer, last.img)

\* C2: after a PutJson answered 200, json, mark and ancestry of the image
\* exist, json is the request body, ancestry begins with the imageID, and a
\* declared parent comes next, followed by the ancestry stored for the parent
\* when the request was handled.
C2_PutJsonStages ==
    [][(last'.op = "PutJson" /\ last'.status = 200) =>
         LET i == last'.img
             body == last'.body
         IN  /\ Exists(json', i) /\ json'[i] = body
             /\ i \in mark'
             /\ Exists(ancestry', i) /\ ancestry'[i][1] = i
             /\ body.parent # Missing =>
                    /\ Exists(ancestry, body.parent)
                    /\ ancestry'[i] = <<i>> \o ancestry[body.parent]
                    /\ ancestry'[i][2] = body.parent]_vars

C2_Witness ==
    /\ last.op = "PutJson" /\ last.status = 200
    /\ last.body.parent \in Images \ {last.img}
    /\ ancestry[last.img] = <<last.img>> \o ancestry[last.body.parent]

\* C3: a PutLayer answered 200 while no checksum is stored leaves the mark
\* present and the layer stored, and sets a cookie whose pieces contain the
\* sha256 digest and, for a tar that parsed, the tarsum, with no trailing
\* separator.
C3_LayerStaged ==
    (last.op = "PutLayer" /\ last.status = 200 /\ ~Exists(checksum, last.img)) =>
        LET i == last.img
            s == last.stream[1]
            value == last.setCookie.value
        IN  /\ i \in mark
            /\ Exists(layer, i) /\ layer[i] = s
            /\ last.setCookie.present
            /\ <<Sha256Sum(json[i], s)>> \in ChecksumMap(value)
            /\ TarParses(s) =>
                   <<TarSumCompute(json[i], TarEntries(s))>> \in ChecksumMap(value)
            /\ value # <<>> /\ value[Len(value)] # Sep

\* C4: a PutChecksum answered 200 had its header among the pieces of its
\* cookie, and the mark of the image does not exist afterwards, also when
\* storage operations may fail.
C4_ChecksumCompletes ==
    (last.op = "PutChecksum" /\ last.status = 200) =>
        /\ last.hdr \in ChecksumMap(last.cookie.value)
        /\ last.img \notin mark

\* C5: a PutChecksum that reaches the comparison with a header that is not a
\* piece of the cookie answers 400 and changes no blob of the image: the
\* mark stays, and json, layer, ancestry and checksum are as before.
C5_MismatchLeavesState ==
    [][(/\ last'.op = "PutChecksum"
        /\ last'.hdr # EmptyStr /\ last'.cookie.present
        /\ Exists(json, last'.img) /\ last'.img \in mark
        /\ last'.hdr \notin ChecksumMap(last'.cookie.value)) =>
         /\ last'.status = 400
         /\ last'.img \in mark'
         /\ json' = json /\ layer' = layer /\ ancestry' = ancestry
         /\ checksum' = checksum]_vars

\* C6: a PutLayer that is not refused (json stored, no conflict) on an image
\* with a stored checksum: when the checksum is a candidate digest of the
\* stored json and the stream, the mark is gone and the answer is 200 without
\* a cookie; otherwise the answer is 400, the mark is as it was and the
\* uploaded stream is the stored layer.
C6_StoredChecksumDecides ==
    [][(/\ last'.op = "PutLayer"
        /\ Exists(json, last'.img)
        /\ ~(Exists(layer, last'.img) /\ last'.img \notin mark)
        /\ Exists(checksum, last'.img)) =>
         LET i == last'.img
             s == last'.stream[1]
         IN  IF checksum[i] \in CandidateChecksums(json[i], s)
             THEN /\ last'.status = 200 /\ ~last'.setCookie.present
                  /\ i \notin mark'
             ELSE /\ last'.status = 400
                  /\ (i \in mark') = (i \in mark)
                  /\ Exists(layer', i) /\ layer'[i] = s]_vars

\* whether a request is an upload request for image i
IsUpload(r, i) == r.img = i /\ r.op \in {"PutJson", "PutLayer", "PutChecksum"}

\* whether the image's json, layer and ancestry are the same after the step
\* and the image is still complete
StaysComplete(i) ==
    /\ Complete(i)'
    /\ json'[i] = json[i] /\ layer'[i] = layer[i]
    /\ Exists(ancestry', i) = Exists(ancestry, i)
    /\ Exists(ancestry, i) => ancestry'[i] = ancestry[i]

\* C7 as stated: once an image is complete, every PutJson, PutLayer and
\* PutChecksum for it is answered 409, the mark never reappears and json,
\* layer and ancestry keep their bytes.
C7_AbsorbingAll409 ==
    [][\A i \in Images : Complete(i) =>
          /\ IsUpload(last', i) => last'.status = 409
          /\ StaysComplete(i)]_vars

\* the validation of the PutJson body that precedes the conflict check
BodyAccepted(i, body) ==
    /\ body.ok /\ body.id = i
    /\ body.parent # NonString
    /\ body.parent # Missing => Exists(json, body.parent)

\* C7 as amended: once an image is complete, every upload request for it is
\* refused: a PutLayer with 409; a PutJson with 409, or with 400 when its
\* body fails the validation; a PutChecksum with 409, or with 400 when the
\* header or the cookie is missing.  The mark never reappears and json,
\* layer and ancestry keep their bytes.
C7_Absorbing ==
    [][\A i \in Images : Complete(i) =>
          /\ (last'.op = "PutLayer" /\ last'.img = i) => last'.status = 409
          /\ (last'.op = "PutJson" /\ last'.img = i) =>
                 last'.status = IF BodyAccepted(i, last'.body) THEN 409 ELSE 400
          /\ (last'.op = "PutChecksum" /\ last'.img = i) =>
                 last'.status = IF last'.hdr # EmptyStr /\ last'.cookie.present
                                THEN 409 ELSE 400
          /\ StaysComplete(i)]_vars

C7_Witness ==
    /\ Complete(last.img)
    /\ last.op = "PutJson" /\ last.status = 409
    /\ last.body # json[last.img]

\* C8 as stated: under interleaved handlers, once an image is complete its
\* json and layer keep their bytes and its mark stays absent.
C8_ImmutableOnceComplete ==
    [][\A i \in UploadImages : Complete(i) =>
          /\ Complete(i)'
          /\ json'[i] = json[i] /\ layer'[i] = layer[i]]_vars

\* a handler in flight that will not write json, layer or mark of a complete
\* image i: it is not yet past its conflict check and holds no observation
\* from which that check would let it through
Harmless(r, i) ==
    \/ r.img # i
    \/ r.op \in {"idle", "PutChecksum"}
    \/ r.op = "PutJson" /\ r.pc \in {"checksum", "exists_parent", "exists_json",
                                      "exists_mark"}
    \/ r.op = "PutLayer" /\ r.pc \in {"get_json", "exists_layer"}
    \/ r.op = "PutLayer" /\ r.pc = "exists_mark" /\ r.layerExists

Settled(i) == Complete(i) /\ \A h \in DOMAIN hs : Harmless(hs[h], i)

\* C8 as amended: under interleaved handlers, once an image is complete
\* while no PutJson or PutLayer handler for it is past its conflict check (or
\* holds a stale observation that passes it), its json and layer keep their
\* bytes and its mark stays absent, whatever handlers start later.
C8_ImmutableOnceSettled ==
    [][\A i \in UploadImages : Settled(i) =>
          /\ Settled(i)'
          /\ json'[i] = json[i] /\ layer'[i] = layer[i]]_vars

C8_Witness ==
    /\ Settled("a")
    /\ \E h \in DOMAIN hs : hs[h].op = "PutJson" /\ hs[h].pc = "exists_mark"
    /\ \E h \in DOMAIN hs : hs[h].op = "PutLayer" /\ hs[h].pc = "exists_mark"

\* C9: every image is in a row of the state table: without json there is
\* neither mark nor layer, and json without mark is together with the layer.
C9_StateTable ==
    \A i \in Images :
        /\ (i \in mark \/ Exists(layer, i)) => Exists(json, i)
        /\ (Exists(json, i) /\ i \notin mark) => Exists(layer, i)

\* C10: every stored ancestry begins with its imageID and each later entry
\* is the parent named by the stored json of the entry before it.
C10_AncestryConsistent ==
    \A i \in DOMAIN ancestry :
        /\ ancestry[i][1] = i
        /\ \A k \in 2..Len(ancestry[i]) :
              /\ Exists(json, ancestry[i][k - 1]) /\ Exists(json, ancestry[i][k])
              /\ json[ancestry[i][k - 1]].parent = ancestry[i][k]

\* C11: for every image whose stored json names a parent, the json blob of
\* that parent exists.
C11_ParentJsonExists ==
    \A i \in DOMAIN json :
        json[i].parent # Missing => Exists(json, json[i].parent)

C11_Witness ==
    /\ last.op = "PutJson" /\ last.status = 200
    /\ json[last.img].parent \in DOMAIN json \ {last.img}

\* whether PutImageJsonHandler must refuse the body for image i: no id, an
\* id that is not a string or not i, a parent that is not a string or has
\* no json blob
Malformed(i, body) ==
    /\ body.ok
    /\ \/ body.id \in {Missing, NonString}
       \/ body.id # i
       \/ body.parent = NonString
       \/ body.parent # Missing /\ ~Exists(json, body.parent)

\* C12: a PutJson with such a body is answered 400 and leaves mark, json and
\* ancestry as they were.
C12_MalformedRejected ==
    [][(last'.op = "PutJson" /\ Malformed(last'.img, last'.body)) =>
         /\ last'.status = 400
         /\ mark' = mark /\ json' = json /\ ancestry' = ancestry]_vars

C12_Witness ==
    /\ last.op = "PutJson" /\ last.status = 400
    /\ last.body.ok /\ last.body.id = last.img
    /\ last.body.parent \in Images /\ ~Exists(json, last.body.parent)
    /\ Exists(json, last.img)

\* C13: a PutChecksum without header or without cookie is answered 400, one
\* for an image without json 404, one for an image with json and without
\* mark 409, and none of them changes a blob.
C13_ChecksumRefused ==
    [][last'.op = "PutChecksum" =>
         LET i == last'.img
             noInput == last'.hdr = EmptyStr \/ ~last'.cookie.present
         IN  /\ noInput => last'.status = 400
             /\ (~noInput /\ ~Exists(json, i)) => last'.status = 404
             /\ (~noInput /\ Exists(json, i) /\ i \notin mark) => last'.status = 409
             /\ (noInput \/ ~Exists(json, i) \/ i \notin mark) =>
                    (checksum' = checksum /\ mark' = mark /\ blobs' = blobs)]_vars

C13_Witness ==
    /\ last.op = "PutChecksum" /\ last.status = 409
    /\ last.hdr # EmptyStr /\ last.cookie.present
    /\ Exists(json, last.img) /\ last.img \notin mark
    /\ Exists(checksum, last.img) /\ checksum[last.img] # last.hdr

\* C14: a PutLayer of a stream that is not a tar archive, on an image with
\* json and without conflict, stores the stream as the layer and leaves the
\* files listing as it was; with no checksum stored it answers 200 with a
\* cookie that holds the sha256 digest and nothing else and leaves the mark,
\* with a checksum stored that is not the sha256 digest it answers 400 as
\* for any other mismatch.
C14_TarErrorTolerated ==
    [][(/\ last'.op = "PutLayer" /\ ~TarParses(last'.stream[1])
        /\ Exists(json, last'.img)
        /\ ~(Exists(layer, last'.img) /\ last'.img \notin mark)) =>
         LET i == last'.img
             s == last'.stream[1]
             sha == <<Sha256Sum(json[i], s)>>
         IN  /\ Exists(layer', i) /\ layer'[i] = s
             /\ files' = files
             /\ ~Exists(checksum, i) =>
                    /\ last'.status = 200
                    /\ last'.setCookie = Cookie(sha)
                    /\ mark' = mark
             /\ (Exists(checksum, i) /\ checksum[i] # sha) =>
                    (last'.status = 400 /\ mark' = mark)]_vars

C14_Witness ==
    /\ last.op = "PutLayer" /\ last.status = 200 /\ last.stream = <<2>>
    /\ last.setCookie.present /\ Len(last.setCookie.value) = 1
    /\ layer[last.img] = 2 /\ ~Exists(files, last.img)

\* the tags of the repository: each tag name that has a blob, with its bytes
Tags(r) ==
    [t \in {t \in TagNames : Exists(r, RepoTagPath(t))} |-> r[RepoTagPath(t)]]

\* C15: a PutTag answered 200 sets its tag to its imageID, a DeleteTag
\* answered 200 removes its tag, a DeleteAllTags answered 200 removes every
\* tag, nothing else changes the tags, and ListTags returns exactly the
\* tags (it answers without a listing only when there is no tag).
C15_ListTagsExact ==
    [][LET r == last'
           ok == r.status = 200
       IN  /\ Tags(repo') =
                 IF r.op = "PutTag" /\ ok THEN Put(Tags(repo), r.tag, r.img)
                 ELSE IF r.op = "DeleteTag" /\ ok THEN Remove(Tags(repo), r.tag)
                 ELSE IF r.op = "DeleteTags" /\ ok THEN Empty
                 ELSE Tags(repo)
           /\ r.op = "GetTags" =>
                 IF ok THEN r.data = Tags(repo) ELSE Tags(repo) = Empty]_vars

C15_Witness ==
    /\ last.op = "GetTags" /\ last.status = 200
    /\ DOMAIN last.data = TagNames
    /\ last.data[<<"latest">>] # last.data[<<"v1">>]
    /\ Exists(repo, RepoJsonPath)

\* C16: a PutTag with an empty body is answered 400, one whose body names
\* an image without json 404, and neither changes the tag; every stored tag
\* names an image whose json blob exists.
C16_TagsNameImages ==
    [][/\ (last'.op = "PutTag" /\ last'.img = "") =>
              (last'.status = 400 /\ repo' = repo)
       /\ (last'.op = "PutTag" /\ last'.img # "" /\ ~Exists(json, last'.img)) =>
              (last'.status = 404 /\ repo' = repo)
       /\ \A t \in DOMAIN Tags(repo') : Exists(json', Tags(repo')[t])]_vars

C16_Witness ==
    /\ last.op = "PutTag" /\ last.status = 404 /\ last.img \in Images
    /\ Tags(repo) # Empty

\* C17: a GET of a read endpoint that carries an If-Modified-Since header is
\* answered 304, with no storage operation made and the read handler not
\* run, whatever is stored for the image.
C17_NotModified ==
    (last.op = "Get" /\ last.ims) =>
        (last.status = 304 /\ ~last.ran /\ ~last.storage)

\* C18: a GET json answered 200 for an image with a stored checksum carries
\* the stored checksum in its X-Docker-Checksum header.
C18_ChecksumHeader ==
    (/\ last.op = "Get" /\ last.kind = "json" /\ last.status = 200
     /\ Exists(checksum, last.img)) =>
        /\ last.sent = "json"
        /\ last.checksumHeader = Cookie(checksum[last.img])

\* C19: the digest computed after the entries of an archive were appended
\* in any order is the digest computed after they were appended in archive
\* order.
C19_OrderIndependent ==
    ts.sum # <<>> =>
        LET t == Loaded(NewTarSum(ts.seed), ts.archive)
        IN  ts.sum = <<TarSumCompute(t.seed, t.hashes)>>

C19_Witness ==
    /\ ts.sum # <<>> /\ Len(ts.archive) = MaxEntries
    /\ ts.read # ts.archive
    /\ Loaded(NewTarSum(ts.seed), ts.read).hashes
           # Loaded(NewTarSum(ts.seed), ts.archive).hashes
    /\ ts.hashes # Loaded(NewTarSum(ts.seed), ts.archive).hashes

\* C20: while only PutJson requests are made, with writes that may fail and
\* stops between storage operations: json is written only under a mark and
\* ancestry only over a json, a request is answered 200 only after all three
\* were written, so in every state json implies mark and ancestry implies
\* json, and no read of the image is answered 200.
C20_WriteOrder ==
    [][/\ \A i \in Images :
             /\ (Exists(json', i) /\ (~Exists(json, i) \/ json'[i] # json[i]))
                    => i \in mark
             /\ (Exists(ancestry', i)
                  /\ (~Exists(ancestry, i) \/ ancestry'[i] # ancestry[i]))
                    => Exists(json, i)
             /\ Exists(json', i) => i \in mark'
             /\ Exists(ancestry', i) => Exists(json', i)
       /\ \A h \in Handlers :
             (/\ hs[h].op = "PutJson" /\ hs[h].pc \in Writes
              /\ hs'[h] = Idle /\ last' # last)
                 => /\ last'.status \in {200, 500}
                    /\ last'.status = 200 =>
                          /\ hs[h].img \in mark'
                          /\ Exists(json', hs[h].img)
                          /\ Exists(ancestry', hs[h].img)
       /\ last'.op = "Get" => last'.status \in {400, 404}]_vars

C20_Witness ==
    /\ last.op = "Get" /\ last.status = 400
    /\ Exists(json, last.img) /\ ~Exists(ancestry, last.img)
    /\ \E i \in Images : i \in mark /\ ~Exists(json, i)

\* C21: a retry begun in any state in which the mark of the image exists
\* is answered 200 by PutJson, 200 with a cookie by PutLayer and 200 by
\* PutChecksum, and leaves the image complete.
C21_RetryCompletes ==
    [][/\ (client.stage = "idle" /\ client'.stage = "json") =>
              last'.status = 200
       /\ (client.stage = "json" /\ client'.stage = "layer") =>
              (last'.status = 200 /\ last'.setCookie.present)
       /\ (client.stage = "layer" /\ client'.stage = "idle") =>
              /\ last'.status = 200
              /\ Exists(json', client.img) /\ Exists(layer', client.img)
              /\ client.img \notin mark']_vars

\* a retry that began with the mark and without the json has completed
C21_Witness ==
    /\ client.stage = "idle" /\ client.img \in UploadImages
    /\ client.began = {} /\ client.cookie.present
    /\ last.op = "PutChecksum" /\ last.status = 200 /\ last.img = client.img
    /\ Complete(client.img) /\ layer[client.img] = 2
    /\ checksum[client.img] \in CandidateChecksums(json[client.img], 2)

\* C22: the stored checksum of a complete image is a candidate digest of
\* its stored json and its stored layer, when every cookie sent with a
\* PutChecksum was set by a PutLayer.
C22_DigestIntegrity ==
    \A i \in Images :
        (Complete(i) /\ Exists(checksum, i)) =>
            checksum[i] \in CandidateChecksums(json[i], layer[i])

\* C23: a PutJson that is answered 400 for its id or its parent, or 409 for
\* an image that exists without mark, changes no blob, the stored checksum
\* included.
C23_RejectedChangesNothing ==
    [][(/\ last'.op = "PutJson" /\ last'.status \in {400, 409}
        /\ last'.body.ok /\ last'.body.id # Missing) =>
         blobs' = blobs]_vars

====
